---- MODULE Spec2Model ----
(***************************************************************************)
(* Model of src/src/initialize.js: the application initialization          *)
(* sequence (initialize), its default handlers (auth, analytics,           *)
(* initError) and the handler table (applyOverrideHandlers).               *)
(*                                                                         *)
(* One step of the model is one synchronous run of JavaScript between two  *)
(* awaits.  The collaborators (pubSub, config, logging, auth, analytics,   *)
(* i18n) are the environment: whether one of their calls returns or throws *)
(* is drawn with \E where the call is made.                                *)
(***************************************************************************)
EXTENDS Integers, Sequences, FiniteSets, TLC

\* ------------------------------------------------------------------ bounds
\* Longest `messages` array drawn by InitMessages.
MaxMessages == 2

\* Init draws the handler tables that override at most this many keys, and
\* the table that overrides every key.
MaxOverrides == 1

\* --------------------------------------------------------------- constants
APP_TOPIC == "APP"
APP_PUBSUB_INITIALIZED == "APP.PUBSUB_INITIALIZED"
APP_CONFIG_INITIALIZED == "APP.CONFIG_INITIALIZED"
APP_AUTH_INITIALIZED == "APP.AUTH_INITIALIZED"
APP_I18N_INITIALIZED == "APP.I18N_INITIALIZED"
APP_LOGGING_INITIALIZED == "APP.LOGGING_INITIALIZED"
APP_ANALYTICS_INITIALIZED == "APP.ANALYTICS_INITIALIZED"
APP_READY == "APP.READY"
APP_INIT_ERROR == "APP.INIT_ERROR"

\* The keys of the handler table, in the order of the object literal.
HandlerKeys ==
  <<"pubSub", "config", "logging", "auth", "analytics", "i18n", "ready", "initError">>

KeySet == {HandlerKeys[i] : i \in 1..Len(HandlerKeys)}

\* The order in which the body of initialize awaits the phase handlers.
PhaseOrder ==
  <<"pubSub", "config", "logging", "auth", "analytics", "i18n", "ready">>

NumPhases == Len(PhaseOrder)

PhaseSet == {PhaseOrder[i] : i \in 1..NumPhases}

CompletionTopic_swapped(p) ==
  CASE p = 1 -> APP_PUBSUB_INITIALIZED
    [] p = 2 -> APP_CONFIG_INITIALIZED
    [] p = 3 -> APP_AUTH_INITIALIZED
    [] p = 4 -> APP_LOGGING_INITIALIZED
    [] p = 5 -> APP_ANALYTICS_INITIALIZED
    [] p = 6 -> APP_I18N_INITIALIZED
    [] p = 7 -> APP_READY

\* The topic published after the handler of the p-th phase has resolved.
CompletionTopic(p) ==
  CASE p = 1 -> APP_PUBSUB_INITIALIZED
    [] p = 2 -> APP_CONFIG_INITIALIZED
    [] p = 3 -> APP_LOGGING_INITIALIZED
    [] p = 4 -> APP_AUTH_INITIALIZED
    [] p = 5 -> APP_ANALYTICS_INITIALIZED
    [] p = 6 -> APP_I18N_INITIALIZED
    [] p = 7 -> APP_READY

WiringCall_noAnalytics(key) ==
  CASE key = "logging" -> "configureLogging"
    [] key = "auth" -> "configureAuth"
    [] key = "i18n" -> "configureI18n"
    [] OTHER -> ""

\* The wiring call made before the handler of a phase, "" when there is none.
WiringCall(key) ==
  CASE key = "logging" -> "configureLogging"
    [] key = "auth" -> "configureAuth"
    [] key = "analytics" -> "configureAnalytics"
    [] key = "i18n" -> "configureI18n"
    [] OTHER -> ""

\* ------------------------------------------------------------ thrown values
\* A JavaScript value that can be thrown: its kind, its isRedirecting
\* property ("absent" when the value has none) and the place that threw it.
NoValue == [kind |-> "none", marker |-> "absent", src |-> <<"none", "none">>]

ThrowShapes ==
  { [kind |-> "object", marker |-> "absent"],
    [kind |-> "object", marker |-> "true"],
    [kind |-> "object", marker |-> "one"],
    [kind |-> "object", marker |-> "false"],
    [kind |-> "null", marker |-> "absent"],
    [kind |-> "undefined", marker |-> "absent"] }

Thrown(shape, who, what) ==
  [kind |-> shape.kind, marker |-> shape.marker, src |-> <<who, what>>]

ThrownBy(who, what) == {Thrown(s, who, what) : s \in ThrowShapes}

\* What a failing error handler throws.  No code reads this value, so one
\* shape stands for all.
ErrorThrownBy(who, what) ==
  {Thrown([kind |-> "object", marker |-> "absent"], who, what)}

\* Reading a property of null or undefined throws a TypeError.
PropertyReadThrows(v) == v.kind \in {"null", "undefined"}

TypeError == [kind |-> "object", marker |-> "absent", src |-> <<"TypeError", "isRedirecting">>]

\* JavaScript truthiness of the isRedirecting property.
Truthy(marker) == marker \in {"true", "one"}

IsRedirecting_strictTrue(v) == v.marker = "true"

\* error.isRedirecting as the condition of line 195 (the value is an object).
IsRedirecting(v) == Truthy(v.marker)

\* -------------------------------------------------------------- the options
OptionValues == {"omitted", "true", "false"}

\* A destructuring default: `name = dflt`.
WithDefault(opt, dflt) == IF opt = "omitted" THEN dflt ELSE opt = "true"

\* ---------------------------------------------------------- handler table
DefaultEntries ==
  << <<"pubSub", "noOp">>, <<"config", "noOp">>, <<"logging", "noOp">>,
     <<"auth", "auth">>, <<"analytics", "analytics">>, <<"i18n", "noOp">>,
     <<"ready", "noOp">>, <<"initError", "initError">> >>

\* The caller's table as the entries `...overrides` spreads.
OverrideEntries(overrides) ==
  SelectSeq([i \in 1..Len(HandlerKeys) |-> <<HandlerKeys[i], "override">>],
            LAMBDA e : e[1] \in overrides)

\* The value an object literal gives a key: that of its last entry.
RECURSIVE LastEntry(_, _)
LastEntry(entries, key) ==
  IF entries = <<>> THEN "undefined"
  ELSE IF entries[Len(entries)][1] = key THEN entries[Len(entries)][2]
  ELSE LastEntry(SubSeq(entries, 1, Len(entries) - 1), key)

applyOverrideHandlers_defaultsLast(overrides) ==
  [k \in KeySet |-> LastEntry(OverrideEntries(overrides) \o DefaultEntries, k)]

applyOverrideHandlers(overrides) ==
  [k \in KeySet |-> LastEntry(DefaultEntries \o OverrideEntries(overrides), k)]

\* ------------------------------------------------- the authenticated user
\* What getAuthenticatedUser() returns: null, a record with a userId, or a
\* record whose userId is missing (or falsy).
Users == {"null", "userId42", "noUserId"}

HasUserId_anyUser(u) == u # "null"

\* Truthiness of `authenticatedUser && authenticatedUser.userId`.
HasUserId(u) == u = "userId42"

\* ----------------------------------------------------- default auth handler
AuthOperation_swapped(requireUser) ==
  IF requireUser THEN "fetchAuthenticatedUser" ELSE "ensureAuthenticatedUser"

\* The identification call of lines 62-66.
AuthOperation(requireUser) ==
  IF requireUser THEN "ensureAuthenticatedUser" ELSE "fetchAuthenticatedUser"

\* The argument of that call.
AuthOperationArg(requireUser) ==
  IF requireUser THEN "global.location.href" ELSE ""

AuthStartsHydration_ignoresUser(hydrateUser, u) == hydrateUser

\* The condition of line 68.
AuthStartsHydration(hydrateUser, u) == hydrateUser /\ u # "null"

AuthAwaitsHydration_awaited == TRUE

\* Line 72 calls hydrateAuthenticatedUser() without `await`.
AuthAwaitsHydration == FALSE

\* ------------------------------------------------ default analytics handler
\* The identify call of lines 88-92.
AnalyticsIdentify(u) ==
  IF HasUserId(u) THEN "identifyAuthenticatedUser" ELSE "identifyAnonymousUser"

AnalyticsIdentifyArg(u) == IF HasUserId(u) THEN u ELSE ""

\* ---------------------------------------------------------------- messages
MsgKeys == {"greeting", "farewell"}
MsgValues == {"A", "B"}

\* An i18n payload: some keys, each with a value.
Payloads == UNION {[S -> MsgValues] : S \in SUBSET MsgKeys}

MessagesUndefined == [shape |-> "undefined", items |-> <<>>]
MessagesObject(p) == [shape |-> "object", items |-> <<p>>]
MessagesArray(ps) == [shape |-> "array", items |-> ps]

I18nOptionsMessages_firstOnly(messages) ==
  IF messages.shape = "array" /\ Len(messages.items) > 0
    THEN MessagesArray(<<messages.items[1]>>)
    ELSE messages

\* The `messages` property of the argument of configureI18n (line 184).
I18nOptionsMessages(messages) == messages

\* The call of configureI18n (lines 183-187): the collaborator has been called
\* with this `messages` argument.
ConfigureI18n(messages) == [configured |-> TRUE, messages |-> messages]

\* Before line 183 configureI18n has not been called.
I18nUnconfigured == [configured |-> FALSE, messages |-> MessagesUndefined]

\* ------------------------------------------------------------ config store
\* The settings of getConfig() that initialize reads.
ConfigKeys ==
  {"BASE_URL", "LMS_BASE_URL", "LOGIN_URL", "LOGOUT_URL",
   "REFRESH_ACCESS_TOKEN_ENDPOINT", "ACCESS_TOKEN_COOKIE_NAME",
   "CSRF_TOKEN_API_PATH"}

\* A config store: each setting has its own value, which tells where the
\* store was filled ("environment" before the run, "handler" by a caller's
\* config handler).
ConfigFrom(origin) == [k \in ConfigKeys |-> <<k, origin>>]

\* The argument of configureAuth with logoutUrl read from LOGOUT_URL.
AuthOptions_logoutFromLogout(cfg) ==
  [loggingService |-> <<"getLoggingService()", "">>,
   appBaseUrl |-> cfg["BASE_URL"],
   lmsBaseUrl |-> cfg["LMS_BASE_URL"],
   loginUrl |-> cfg["LOGIN_URL"],
   logoutUrl |-> cfg["LOGOUT_URL"],
   refreshAccessTokenEndpoint |-> cfg["REFRESH_ACCESS_TOKEN_ENDPOINT"],
   accessTokenCookieName |-> cfg["ACCESS_TOKEN_COOKIE_NAME"],
   csrfTokenApiPath |-> cfg["CSRF_TOKEN_API_PATH"]]

\* The argument of configureAuth (lines 160-169), built from the store cfg.
AuthOptions(cfg) ==
  [loggingService |-> <<"getLoggingService()", "">>,
   appBaseUrl |-> cfg["BASE_URL"],
   lmsBaseUrl |-> cfg["LMS_BASE_URL"],
   loginUrl |-> cfg["LOGIN_URL"],
   logoutUrl |-> cfg["LOGIN_URL"],
   refreshAccessTokenEndpoint |-> cfg["REFRESH_ACCESS_TOKEN_ENDPOINT"],
   accessTokenCookieName |-> cfg["ACCESS_TOKEN_COOKIE_NAME"],
   csrfTokenApiPath |-> cfg["CSRF_TOKEN_API_PATH"]]

AuthUnconfigured == [configured |-> FALSE, options |-> <<>>]

ConfigureAuth(opts) == [configured |-> TRUE, options |-> opts]

\* ------------------------------------------------------------------- state
VARIABLES
  options,    \* the argument of initialize
  handlers,   \* the table built by applyOverrideHandlers
  pc,         \* where the body of initialize is
  phase,      \* index in PhaseOrder of the phase being run, 0 before the first
  settled,    \* how the awaited handler settled
  published,  \* the publish calls so far: topic and payload
  calls,      \* in order: the handler invocations and settlements, the
              \* collaborator calls and the publish calls so far
  user,       \* the auth collaborator's authenticated user
  authOp,     \* the ensure/fetch call of the default auth handler
  hydration,  \* the promise of hydrateAuthenticatedUser()
  awaitingHydration, \* the default auth handler is suspended on hydration
  thrown,     \* the value caught by the catch clause
  result,     \* the promise returned by initialize
  i18n,       \* what the i18n collaborator was configured with
  config,     \* the config store: what getConfig() returns
  authOptions \* what the auth collaborator was configured with

vars ==
  <<options, handlers, pc, phase, settled, published, calls, user, authOp,
    hydration, awaitingHydration, thrown, result, i18n, config, authOptions>>

requireUser == WithDefault(options.requireAuthenticatedUser, FALSE)
hydrateUser == WithDefault(options.hydrateAuthenticatedUser, FALSE)

Unsettled == [state |-> "none", value |-> NoValue]
Resolved == [state |-> "resolved", value |-> NoValue]
Rejected(v) == [state |-> "rejected", value |-> v]

Pending == [state |-> "pending", reason |-> NoValue]
Fulfilled == [state |-> "fulfilled", reason |-> NoValue]
RejectedWith(v) == [state |-> "rejected", reason |-> v]

Call(op, key, impl, arg, err) ==
  [op |-> op, key |-> key, impl |-> impl, arg |-> arg, err |-> err]

Publication(topic, payload) == [topic |-> topic, payload |-> payload]

NoHandlers == [k \in KeySet |-> "undefined"]

\* The messages drawn by Init: the array of the documentation.  InitMessages
\* draws the others.
InitMessageChoices ==
  { MessagesArray(<< [k \in {"greeting"} |-> "A"], [k \in {"greeting"} |-> "B"] >>) }

OverrideChoices ==
  {S \in SUBSET KeySet : Cardinality(S) <= MaxOverrides \/ S = KeySet}

InitState ==
  /\ handlers = NoHandlers
  /\ pc = "NotStarted"
  /\ phase = 0
  /\ settled = Unsettled
  /\ published = <<>>
  /\ calls = <<>>
  /\ user = "null"
  /\ authOp = "none"
  /\ hydration = "notStarted"
  /\ awaitingHydration = FALSE
  /\ thrown = NoValue
  /\ result = Pending
  /\ i18n = I18nUnconfigured
  /\ config = ConfigFrom("environment")
  /\ authOptions = AuthUnconfigured

Init ==
  /\ options \in [requireAuthenticatedUser : OptionValues,
                  hydrateAuthenticatedUser : OptionValues,
                  messages : InitMessageChoices,
                  handlers : OverrideChoices]
  /\ InitState

\* The settlement of the awaited handler of `key`, as an entry of calls.
Settlement(h, key, outcome) ==
  Call("settled", key, h[key], outcome.state, outcome.value)

\* A publish call, as an entry of calls.
PublishCall(topic, payload) == Call("publish", "", "", topic, payload)

\* ------------------------------------------------------ invoking a handler
\* Calling handlers[key]: the call itself, then what the default handler does
\* before its first await.  err is the argument of initError.
InvokeHandler(h, key, cs, err) ==
  LET invoked == Append(cs, Call("handler", key, h[key], "", err))
  IN  CASE h[key] = "auth" ->
             Append(invoked, Call(AuthOperation(requireUser), key, h[key],
                                  AuthOperationArg(requireUser), NoValue))
        [] h[key] = "analytics" ->
             Append(invoked, Call(AnalyticsIdentify(user), key, h[key],
                                  AnalyticsIdentifyArg(user), NoValue))
        [] h[key] = "initError" ->
             Append(invoked, Call("logError", key, h[key], "", err))
        [] OTHER -> invoked

\* ------------------------------------------------------- the catch clause
\* Lines 194-200 for a value v thrown in the try block, after the
\* publications pub and the calls cs.
Catch(v, pub, cs) ==
  /\ thrown' = v
  /\ published' = pub
  /\ settled' = Unsettled
  /\ IF PropertyReadThrows(v)
       THEN /\ pc' = "Rejected"
            /\ result' = RejectedWith(TypeError)
            /\ calls' = cs
       ELSE IF IsRedirecting(v)
         THEN /\ pc' = "Redirecting"
              /\ result' = Fulfilled
              /\ calls' = cs
         ELSE /\ pc' = "AwaitInitError"
              /\ result' = result
              /\ calls' = InvokeHandler(handlers, "initError", cs, v)

\* ---------------------------------------------------------------- actions
\* Lines 142-145: build the table, call handlers.pubSub().
Start ==
  /\ pc = "NotStarted"
  /\ handlers' = applyOverrideHandlers(options.handlers)
  /\ calls' = InvokeHandler(handlers', PhaseOrder[1], calls, NoValue)
  /\ phase' = 1
  /\ pc' = "Await"
  /\ UNCHANGED <<options, config, authOptions, settled, published, user,
                 authOp, hydration, awaitingHydration, thrown, result, i18n>>

CurrentKey == PhaseOrder[phase]

\* The default no-op `async () => {}` resolves.
SettleNoOp ==
  /\ pc = "Await"
  /\ handlers[CurrentKey] = "noOp"
  /\ settled' = Resolved
  /\ calls' = Append(calls, Settlement(handlers, CurrentKey, settled'))
  /\ pc' = "Resume"
  /\ UNCHANGED <<options, config, authOptions, handlers, phase, published,
                 user, authOp, hydration, awaitingHydration, thrown, result,
                 i18n>>

\* A caller's handler resolves or throws; a caller's auth handler leaves the
\* authenticated user in any state, and a caller's config handler may fill
\* the config store.
SettleOverride ==
  /\ pc = "Await"
  /\ handlers[CurrentKey] = "override"
  /\ \E o \in {Resolved} \cup {Rejected(v) : v \in ThrownBy("handler", CurrentKey)} :
       settled' = o
  /\ calls' = Append(calls, Settlement(handlers, CurrentKey, settled'))
  /\ IF CurrentKey = "auth" THEN user' \in Users ELSE user' = user
  /\ IF CurrentKey = "config" /\ settled'.state = "resolved"
       THEN config' \in {config, ConfigFrom("handler")}
       ELSE config' = config
  /\ pc' = "Resume"
  /\ UNCHANGED <<options, authOptions, handlers, phase, published, authOp,
                 hydration, awaitingHydration, thrown, result, i18n>>

\* Lines 62-74 after the await: ensure/fetch resolved with user u.
AuthOperationResolves ==
  /\ pc = "Await"
  /\ handlers[CurrentKey] = "auth"
  /\ authOp = "pending"
  /\ authOp' = "resolved"
  /\ \E u \in Users :
       LET starts == AuthStartsHydration(hydrateUser, u)
           called == IF starts
                       THEN Append(calls, Call("hydrateAuthenticatedUser",
                                               CurrentKey, "auth", "", NoValue))
                       ELSE calls
       IN  /\ user' = u
           /\ hydration' = IF starts THEN "pending" ELSE hydration
           /\ IF starts /\ AuthAwaitsHydration
                THEN /\ awaitingHydration' = TRUE
                     /\ calls' = called
                     /\ UNCHANGED <<settled, pc>>
                ELSE /\ awaitingHydration' = FALSE
                     /\ settled' = Resolved
                     /\ calls' = Append(called, Settlement(handlers, CurrentKey, settled'))
                     /\ pc' = "Resume"
  /\ UNCHANGED <<options, config, authOptions, handlers, phase, published,
                 thrown, result, i18n>>

\* Lines 62-66: ensure/fetch rejects (a login redirect, or a failure), and the
\* await throws the value.
AuthOperationRejects ==
  /\ pc = "Await"
  /\ handlers[CurrentKey] = "auth"
  /\ authOp = "pending"
  /\ authOp' = "rejected"
  /\ \E v \in ThrownBy("collaborator", AuthOperation(requireUser)) :
       settled' = Rejected(v)
  /\ calls' = Append(calls, Settlement(handlers, CurrentKey, settled'))
  /\ pc' = "Resume"
  /\ UNCHANGED <<options, config, authOptions, handlers, phase, published,
                 user, hydration, awaitingHydration, thrown, result, i18n>>

\* Lines 86-93: the identify call returned, or threw.
SettleAnalytics ==
  /\ pc = "Await"
  /\ handlers[CurrentKey] = "analytics"
  /\ \E o \in {Resolved} \cup
              {Rejected(v) : v \in ThrownBy("collaborator", "identify")} :
       settled' = o
  /\ calls' = Append(calls, Settlement(handlers, CurrentKey, settled'))
  /\ pc' = "Resume"
  /\ UNCHANGED <<options, config, authOptions, handlers, phase, published,
                 user, authOp, hydration, awaitingHydration, thrown, result,
                 i18n>>

\* The promise of hydrateAuthenticatedUser() settles.  Nothing in initialize
\* awaits it; were the handler suspended on it, it would resume here.
HydrationSettles ==
  /\ hydration = "pending"
  /\ \E h \in {"fulfilled", "rejected"} :
       /\ hydration' = h
       /\ IF awaitingHydration
            THEN /\ awaitingHydration' = FALSE
                 /\ pc' = "Resume"
                 /\ settled' = IF h = "fulfilled" THEN Resolved
                               ELSE Rejected(Thrown([kind |-> "object", marker |-> "absent"],
                                                    "collaborator", "hydrateAuthenticatedUser"))
                 /\ calls' = Append(calls, Settlement(handlers, CurrentKey, settled'))
            ELSE UNCHANGED <<awaitingHydration, pc, settled, calls>>
  /\ UNCHANGED <<options, config, authOptions, handlers, phase, published,
                 user, authOp, thrown, result, i18n>>

\* The await of a phase handler throws: control goes to the catch clause.
ResumeRejected ==
  /\ pc = "Resume"
  /\ settled.state = "rejected"
  /\ Catch(settled.value, published, calls)
  /\ UNCHANGED <<options, config, authOptions, handlers, phase, user, authOp,
                 hydration, awaitingHydration, i18n>>

PublishedAfterPhase_skipsAuth ==
  IF phase = 4 THEN published
  ELSE Append(published, Publication(CompletionTopic(phase), NoValue))

PublishedAfterPhase_twice ==
  Append(Append(published, Publication(CompletionTopic(phase), NoValue)),
         Publication(CompletionTopic(phase), NoValue))

\* The publications after publish(topic of the phase) (lines 146, 150, 157,
\* 171, 180, 189, 193).
PublishedAfterPhase == Append(published, Publication(CompletionTopic(phase), NoValue))

CallsAfterPublish == Append(calls, PublishCall(CompletionTopic(phase), NoValue))

\* Lines 192-193: the ready handler resolved; publish APP_READY and return.
ResumeReady ==
  /\ pc = "Resume"
  /\ settled.state = "resolved"
  /\ phase = NumPhases
  /\ published' = PublishedAfterPhase
  /\ calls' = CallsAfterPublish
  /\ pc' = "Done"
  /\ result' = Fulfilled
  /\ settled' = Unsettled
  /\ UNCHANGED <<options, config, authOptions, handlers, phase, user, authOp,
                 hydration, awaitingHydration, thrown, i18n>>

NextKey == PhaseOrder[phase + 1]

CallsAfterWiring ==
  IF WiringCall(NextKey) = "" THEN CallsAfterPublish
  ELSE Append(CallsAfterPublish, Call(WiringCall(NextKey), NextKey, "", "", NoValue))

\* A phase handler resolved: publish its topic, wire the next phase and call
\* its handler (lines 146-149, 150-156, 157-170, 171-179, 180-188, 189-192).
ResumeNext ==
  /\ pc = "Resume"
  /\ settled.state = "resolved"
  /\ phase < NumPhases
  /\ published' = PublishedAfterPhase
  /\ i18n' = IF NextKey = "i18n"
               THEN ConfigureI18n(I18nOptionsMessages(options.messages))
               ELSE i18n
  /\ authOptions' = IF NextKey = "auth"
                      THEN ConfigureAuth(AuthOptions(config))
                      ELSE authOptions
  /\ calls' = InvokeHandler(handlers, NextKey, CallsAfterWiring, NoValue)
  /\ authOp' = IF handlers[NextKey] = "auth" THEN "pending" ELSE authOp
  /\ phase' = phase + 1
  /\ pc' = "Await"
  /\ settled' = Unsettled
  /\ UNCHANGED <<options, config, handlers, user, hydration,
                 awaitingHydration, thrown, result>>

\* A phase handler resolved and its topic is published, but the wiring of the
\* next phase throws: while its arguments are read ("arguments") or in the
\* configure call itself ("configure").
ResumeWiringThrows ==
  /\ pc = "Resume"
  /\ settled.state = "resolved"
  /\ phase < NumPhases
  /\ WiringCall(NextKey) # ""
  /\ \E at \in {"arguments", "configure"} :
       \E v \in ThrownBy("wiring", NextKey) :
         Catch(v, PublishedAfterPhase,
               IF at = "configure" THEN CallsAfterWiring ELSE CallsAfterPublish)
  /\ UNCHANGED <<options, config, authOptions, handlers, phase, user, authOp,
                 hydration, awaitingHydration, i18n>>

\* Line 197: the error handler settles.  The default one (lines 43-45)
\* rejects when logError throws.
SettleInitError ==
  /\ pc = "AwaitInitError"
  /\ \E o \in {Resolved} \cup
              {Rejected(v) : v \in
                 IF handlers["initError"] = "initError"
                   THEN ErrorThrownBy("collaborator", "logError")
                   ELSE ErrorThrownBy("handler", "initError")} :
       settled' = o
  /\ calls' = Append(calls, Settlement(handlers, "initError", settled'))
  /\ pc' = "ResumeInitError"
  /\ UNCHANGED <<options, config, authOptions, handlers, phase, published,
                 user, authOp, hydration, awaitingHydration, thrown, result,
                 i18n>>

\* Line 198: the error handler resolved; publish APP_INIT_ERROR with the error.
ResumeInitErrorResolved ==
  /\ pc = "ResumeInitError"
  /\ settled.state = "resolved"
  /\ published' = Append(published, Publication(APP_INIT_ERROR, thrown))
  /\ calls' = Append(calls, PublishCall(APP_INIT_ERROR, thrown))
  /\ pc' = "Errored"
  /\ result' = Fulfilled
  /\ settled' = Unsettled
  /\ UNCHANGED <<options, config, authOptions, handlers, phase, user, authOp,
                 hydration, awaitingHydration, thrown, i18n>>

\* Line 197: the await inside the catch clause throws; nothing catches it and
\* the promise of initialize rejects.
ResumeInitErrorRejected ==
  /\ pc = "ResumeInitError"
  /\ settled.state = "rejected"
  /\ pc' = "Rejected"
  /\ result' = RejectedWith(settled.value)
  /\ settled' = Unsettled
  /\ UNCHANGED <<options, config, authOptions, handlers, phase, published,
                 calls, user, authOp, hydration, awaitingHydration, thrown,
                 i18n>>

Next ==
  \/ Start
  \/ SettleNoOp
  \/ SettleOverride
  \/ AuthOperationResolves
  \/ AuthOperationRejects
  \/ SettleAnalytics
  \/ HydrationSettles
  \/ ResumeRejected
  \/ ResumeReady
  \/ ResumeNext
  \/ ResumeWiringThrows
  \/ SettleInitError
  \/ ResumeInitErrorResolved
  \/ ResumeInitErrorRejected

Spec == Init /\ [][Next]_vars

\* --------------------------------------- a second specification: messages
\* Every `messages` option over MsgKeys and MsgValues: absent, one payload, or
\* an array of at most MaxMessages payloads.
AllMessages ==
  {MessagesUndefined}
    \cup {MessagesObject(p) : p \in Payloads}
    \cup {MessagesArray(ps) : ps \in UNION {[1..n -> Payloads] : n \in 0..MaxMessages}}

InitMessages ==
  /\ options \in [requireAuthenticatedUser : {"omitted"},
                  hydrateAuthenticatedUser : {"true"},
                  messages : AllMessages,
                  handlers : {{}, {"i18n", "initError"}}]
  /\ InitState

SpecMessages == InitMessages /\ [][Next]_vars

\* ------------------------------------------------- vocabulary of the claims
Topics == [i \in 1..Len(published) |-> published[i].topic]

TopicSet == {published[i].topic : i \in 1..Len(published)}

ExpectedTopics ==
  <<"APP.PUBSUB_INITIALIZED", "APP.CONFIG_INITIALIZED", "APP.LOGGING_INITIALIZED",
    "APP.AUTH_INITIALIZED", "APP.ANALYTICS_INITIALIZED", "APP.I18N_INITIALIZED",
    "APP.READY">>

Terminal == {"Done", "Errored", "Redirecting", "Rejected"}

NoFailure == thrown = NoValue /\ settled.state # "rejected"

CountCalls(P(_)) == Cardinality({i \in 1..Len(calls) : P(calls[i])})

CountPublished(topic) == Cardinality({i \in 1..Len(published) : published[i].topic = topic})

PhaseIndex(key) == CHOOSE i \in 1..NumPhases : PhaseOrder[i] = key

\* The value came out of a phase handler: thrown by a caller's handler, or by
\* the collaborator call a default handler makes.
ThrownByHandler(v) == v.src[1] \in {"handler", "collaborator"}

HandlerInvocations(key, impl) ==
  CountCalls(LAMBDA c : c.op = "handler" /\ c.key = key /\ c.impl = impl)

NoLaterHandlerInvoked ==
  \A i \in 1..Len(calls) :
    (calls[i].op = "handler" /\ calls[i].key \in PhaseSet)
      => PhaseIndex(calls[i].key) <= phase

\* ------------------------------------------------------------------ claims
\* C1: in a run in which no handler and no wiring step throws, the topics
\* published so far are the first completed phases' topics of PUBSUB, CONFIG,
\* LOGGING, AUTH, ANALYTICS, I18N, READY in that order, the run can only end
\* in Done, and at Done all seven have been published once each and
\* APP.INIT_ERROR has not.
C1_TopicsInOrder ==
  /\ NoFailure =>
       /\ pc \in {"NotStarted", "Await", "Resume", "Done"}
       /\ Topics = SubSeq(ExpectedTopics, 1,
                          IF pc = "NotStarted" THEN 0
                          ELSE IF pc = "Done" THEN 7 ELSE phase - 1)
  /\ pc = "Done" => NoFailure /\ Topics = ExpectedTopics

C1_Witness ==
  /\ pc = "Done"
  /\ Topics = ExpectedTopics
  /\ options.handlers = KeySet

\* C2: a run that has ended has exactly one of three outcomes, APP.READY
\* published, APP.INIT_ERROR published, or a silent stop on a redirect; and
\* APP.READY and APP.INIT_ERROR are never both published.
C2_ExactlyOneOutcome ==
  /\ ~ (APP_READY \in TopicSet /\ APP_INIT_ERROR \in TopicSet)
  /\ pc \in Terminal =>
       Cardinality({o \in {"ready", "error", "redirect"} :
                      \/ o = "ready" /\ APP_READY \in TopicSet
                      \/ o = "error" /\ APP_INIT_ERROR \in TopicSet
                      \/ o = "redirect" /\ pc = "Redirecting"}) = 1

\* C3: when the handler of phase P throws a plain error, the run ends with
\* no topic of P or of a later phase published, no later handler invoked and
\* APP.INIT_ERROR published exactly once with that error as payload.
C3_PlainErrorIsPublished ==
  (/\ pc \in Terminal
   /\ thrown.kind = "object" /\ thrown.marker = "absent"
   /\ ThrownByHandler(thrown)) =>
     /\ Topics = SubSeq(ExpectedTopics, 1, phase - 1) \o <<"APP.INIT_ERROR">>
     /\ published[Len(published)].payload = thrown
     /\ NoLaterHandlerInvoked

\* C4: when the handler of phase P throws a value whose isRedirecting is
\* truthy, the run stops silently: the topics published are exactly those of
\* the phases before P, no later handler and no error handler is invoked,
\* logError is not called and APP.INIT_ERROR is not published.
C4_RedirectStopsSilently ==
  (/\ thrown # NoValue
   /\ thrown.kind = "object" /\ thrown.marker \in {"true", "one"}
   /\ ThrownByHandler(thrown)) =>
     /\ pc = "Redirecting"
     /\ Topics = SubSeq(ExpectedTopics, 1, phase - 1)
     /\ NoLaterHandlerInvoked
     /\ CountCalls(LAMBDA c : c.key = "initError" \/ c.op = "logError") = 0

C4_Witness ==
  /\ pc = "Redirecting"
  /\ thrown.marker = "one"
  /\ thrown.src = <<"collaborator", "ensureAuthenticatedUser">>
  /\ Topics = SubSeq(ExpectedTopics, 1, 3)

\* C5: the promise returned by initialize never rejects.
C5_NeverRejects == result.state # "rejected"

\* C6: when a run has ended after a thrown value that does not carry a truthy
\* isRedirecting, the error handler was invoked with that value and
\* APP.INIT_ERROR was published with that value as payload.
C6_OtherValuesReachErrorHandler ==
  (/\ pc \in Terminal
   /\ thrown # NoValue
   /\ thrown.marker \notin {"true", "one"}) =>
     /\ CountCalls(LAMBDA c : c.op = "handler" /\ c.key = "initError"
                              /\ c.err = thrown) = 1
     /\ \E i \in 1..Len(published) :
          published[i] = Publication("APP.INIT_ERROR", thrown)

HydrationError == <<"collaborator", "hydrateAuthenticatedUser">>

\* C7: with the default auth handler, once hydration has been started the
\* handler has resolved without waiting for it; whatever hydration does
\* (pending, fulfilled, rejected), no failure comes from it, the topics
\* published in a run without other failure are the same prefix of the seven,
\* and the run reaches Done.  Hydration is started when the option is true and
\* ensure/fetch resolved with a user.
C7_HydrationNotAwaited ==
  /\ (handlers["auth"] = "auth" /\ hydration # "notStarted") =>
       /\ ~ awaitingHydration
       /\ \/ (settled.state = "resolved" /\ pc = "Resume" /\ phase = PhaseIndex("auth"))
          \/ "APP.AUTH_INITIALIZED" \in TopicSet
       /\ thrown.src # HydrationError
       /\ settled.value.src # HydrationError
       /\ \A i \in 1..Len(published) : published[i].payload.src # HydrationError
       /\ NoFailure =>
            Topics = SubSeq(ExpectedTopics, 1, IF pc = "Done" THEN 7 ELSE phase - 1)
  /\ (/\ handlers["auth"] = "auth"
      /\ options.hydrateAuthenticatedUser = "true"
      /\ authOp = "resolved"
      /\ user # "null") => hydration # "notStarted"

C7_Witness ==
  /\ pc = "Done"
  /\ handlers["auth"] = "auth"
  /\ options.requireAuthenticatedUser = "false"
  /\ hydration = "rejected"
  /\ Topics = ExpectedTopics

DefaultName(key) ==
  CASE key = "auth" -> "auth"
    [] key = "analytics" -> "analytics"
    [] key = "initError" -> "initError"
    [] OTHER -> "noOp"

AuthCollaboratorCalls ==
  CountCalls(LAMBDA c : c.op \in {"ensureAuthenticatedUser", "fetchAuthenticatedUser",
                                  "hydrateAuthenticatedUser"})

IdentifyCalls ==
  CountCalls(LAMBDA c : c.op \in {"identifyAuthenticatedUser", "identifyAnonymousUser"})

\* C8: at the end of a run in which nothing failed, every phase key of the
\* overlay had its override invoked exactly once and its default never, and
\* every other phase had its default invoked exactly once; an overridden auth
\* makes no ensure/fetch/hydrate call and an overridden analytics no identify
\* call.  In every run, an overridden initError means the default error
\* handler is never invoked and logError is never called, and the error
\* handler that is invoked is the override.
C8_OverrideReplacesDefault ==
  /\ pc = "Done" =>
       /\ \A k \in PhaseSet :
            IF k \in options.handlers
              THEN /\ HandlerInvocations(k, "override") = 1
                   /\ HandlerInvocations(k, DefaultName(k)) = 0
              ELSE /\ HandlerInvocations(k, DefaultName(k)) = 1
                   /\ HandlerInvocations(k, "override") = 0
       /\ "auth" \in options.handlers => AuthCollaboratorCalls = 0
       /\ "auth" \notin options.handlers => AuthCollaboratorCalls >= 1
       /\ "analytics" \in options.handlers => IdentifyCalls = 0
       /\ "analytics" \notin options.handlers => IdentifyCalls = 1
  /\ IF "initError" \in options.handlers
       THEN /\ HandlerInvocations("initError", "initError") = 0
            /\ CountCalls(LAMBDA c : c.op = "logError") = 0
            /\ pc = "Errored" => HandlerInvocations("initError", "override") = 1
       ELSE /\ HandlerInvocations("initError", "override") = 0
            /\ pc = "Errored" => HandlerInvocations("initError", "initError") = 1

C8_Witness ==
  /\ pc = "Done"
  /\ options.handlers = {"i18n"}
  /\ HandlerInvocations("i18n", "override") = 1
  /\ HandlerInvocations("i18n", "noOp") = 0
  /\ HandlerInvocations("auth", "auth") = 1

\* The payloads of an array that have key k.
ItemsWith(items, k) == {i \in 1..Len(items) : k \in DOMAIN items[i]}

LastOf(S) == CHOOSE i \in S : \A j \in S : j <= i

\* C9 as stated: once configureI18n has been called, what it was given for an
\* array of payloads is one payload whose keys are those of the payloads, each
\* with the value of the last payload that has it; a single payload is given
\* as it is.
C9_MessagesLastOneWins ==
  i18n.configured =>
    LET m == options.messages
        given == i18n.messages
    IN  CASE m.shape = "array" ->
               /\ given.shape = "object"
               /\ DOMAIN given.items[1] =
                    {k \in MsgKeys : ItemsWith(m.items, k) # {}}
               /\ \A k \in DOMAIN given.items[1] :
                    given.items[1][k] = m.items[LastOf(ItemsWith(m.items, k))][k]
          [] m.shape = "object" -> given = m
          [] OTHER -> TRUE

\* C9 as amended: configureI18n is called with the messages option as it was
\* given to initialize: an array of payloads is passed as that array, payload
\* by payload and in the same order, unmerged; a single payload is passed as
\* it is; an omitted option is passed as undefined.
C9_MessagesPassedAsGiven ==
  /\ i18n.configured => i18n.messages = options.messages
  /\ ~ i18n.configured => i18n = I18nUnconfigured
  /\ "APP.I18N_INITIALIZED" \in TopicSet => i18n.configured

C9_Witness ==
  /\ i18n.configured
  /\ options.messages =
       MessagesArray(<< [k \in {"greeting"} |-> "A"], [k \in {"greeting"} |-> "B"] >>)
  /\ i18n.messages.shape = "array"
  /\ Len(i18n.messages.items) = 2
  /\ i18n.messages.items[1]["greeting"] = "A"
  /\ i18n.messages.items[2]["greeting"] = "B"
  /\ "APP.I18N_INITIALIZED" \in TopicSet

EnsureCalls == CountCalls(LAMBDA c : c.op = "ensureAuthenticatedUser")

FetchCalls == CountCalls(LAMBDA c : c.op = "fetchAuthenticatedUser")

AuthHandlerInvoked == HandlerInvocations("auth", "auth") > 0

\* C10: the default auth handler, once invoked, has made exactly one
\* identification call: ensureAuthenticatedUser with the current location when
\* requireAuthenticatedUser is true, fetchAuthenticatedUser when it is false
\* or omitted.  While that call is pending the auth phase is pending and
\* APP.AUTH_INITIALIZED is not published; when it rejects, the auth phase
\* fails with the rejection value and APP.AUTH_INITIALIZED is never published.
C10_OneIdentificationCall ==
  /\ ~ AuthHandlerInvoked => EnsureCalls = 0 /\ FetchCalls = 0 /\ authOp = "none"
  /\ AuthHandlerInvoked =>
       /\ IF options.requireAuthenticatedUser = "true"
            THEN /\ EnsureCalls = 1 /\ FetchCalls = 0
                 /\ \A i \in 1..Len(calls) :
                      calls[i].op = "ensureAuthenticatedUser"
                        => calls[i].arg = "global.location.href"
            ELSE EnsureCalls = 0 /\ FetchCalls = 1
       /\ authOp \in {"pending", "resolved", "rejected"}
       /\ authOp = "pending" =>
            /\ pc = "Await" /\ phase = PhaseIndex("auth")
            /\ "APP.AUTH_INITIALIZED" \notin TopicSet
       /\ "APP.AUTH_INITIALIZED" \in TopicSet => authOp = "resolved"
       /\ authOp = "rejected" =>
            /\ "APP.AUTH_INITIALIZED" \notin TopicSet
            /\ phase = PhaseIndex("auth")
            /\ \/ (settled.state = "rejected" /\ settled.value.src[1] = "collaborator")
               \/ thrown.src[1] = "collaborator"
            /\ (IF thrown = NoValue THEN settled.value ELSE thrown).src[2]
                 = (IF options.requireAuthenticatedUser = "true"
                      THEN "ensureAuthenticatedUser" ELSE "fetchAuthenticatedUser")

C10_Witness ==
  /\ options.requireAuthenticatedUser = "true"
  /\ AuthHandlerInvoked
  /\ EnsureCalls = 1
  /\ authOp = "resolved"
  /\ "APP.AUTH_INITIALIZED" \in TopicSet

C10_WitnessRejected ==
  /\ AuthHandlerInvoked
  /\ authOp = "rejected"
  /\ pc = "Errored"

\* ------------------------------------------------- claims C11 to C20
HandlerInvoked(key) ==
  \E i \in 1..Len(calls) : calls[i].op = "handler" /\ calls[i].key = key

HandlerSettled(key, how) ==
  \E i \in 1..Len(calls) :
    calls[i].op = "settled" /\ calls[i].key = key /\ calls[i].arg = how

\* C11: for every phase, its topic is published at most once, and only after
\* its handler was invoked and resolved, the publish coming right after the
\* settlement; a handler that resolved has its topic published by the very
\* next step of initialize; a phase whose handler rejected, whose wiring
\* threw or which was never reached has no topic published.
C11_TopicIffHandlerResolved ==
  \A p \in 1..NumPhases :
    LET k == PhaseOrder[p]
        t == ExpectedTopics[p]
    IN  /\ CountPublished(t) <= 1
        /\ t \in TopicSet => HandlerInvoked(k) /\ HandlerSettled(k, "resolved")
        /\ HandlerSettled(k, "resolved") =>
             \/ t \in TopicSet
             \/ (pc = "Resume" /\ phase = p /\ settled.state = "resolved")
        /\ HandlerSettled(k, "rejected") => t \notin TopicSet
        /\ thrown.src = <<"wiring", k>> => ~ HandlerInvoked(k) /\ t \notin TopicSet
        /\ ~ HandlerInvoked(k) => t \notin TopicSet
        /\ \A i \in 1..Len(calls) :
             (calls[i].op = "publish" /\ calls[i].arg = t) =>
               /\ i > 1
               /\ calls[i - 1].op = "settled"
               /\ calls[i - 1].key = k
               /\ calls[i - 1].arg = "resolved"

C11_Witness ==
  /\ pc = "Errored"
  /\ thrown.src = <<"wiring", "auth">>
  /\ Topics = <<"APP.PUBSUB_INITIALIZED", "APP.CONFIG_INITIALIZED",
                "APP.LOGGING_INITIALIZED", "APP.INIT_ERROR">>
  /\ ~ HandlerInvoked("auth")

ErrorHandlerInvokedWith(v) ==
  CountCalls(LAMBDA c : c.op = "handler" /\ c.key = "initError" /\ c.err = v)

\* C12: when the wiring of a phase throws, that phase's handler is never
\* invoked and neither its topic nor a later one is published; a value with a
\* truthy isRedirecting stops the run silently, and any other value is given
\* to the error handler and published with APP.INIT_ERROR.
C12_WiringFailureLikeHandlerFailure ==
  (pc \in Terminal /\ thrown.src[1] = "wiring") =>
    /\ thrown.src[2] = PhaseOrder[phase + 1]
    /\ ~ HandlerInvoked(thrown.src[2])
    /\ NoLaterHandlerInvoked
    /\ IF thrown.marker \in {"true", "one"}
         THEN /\ pc = "Redirecting"
              /\ Topics = SubSeq(ExpectedTopics, 1, phase)
              /\ CountCalls(LAMBDA c : c.key = "initError") = 0
         ELSE /\ ErrorHandlerInvokedWith(thrown) = 1
              /\ Topics = SubSeq(ExpectedTopics, 1, phase) \o <<"APP.INIT_ERROR">>
              /\ published[Len(published)].payload = thrown

\* C13: after a failure whose value has no truthy isRedirecting, the error
\* handler is invoked exactly once, with the thrown value; APP.INIT_ERROR is
\* published at most once, only right after the error handler has settled,
\* and it is the last thing the run does.
C13_ErrorHandlerThenInitError ==
  /\ CountPublished("APP.INIT_ERROR") <= 1
  /\ \A i \in 1..Len(calls) :
       (calls[i].op = "publish" /\ calls[i].arg = "APP.INIT_ERROR") =>
         /\ i = Len(calls)
         /\ calls[i - 1].op = "settled" /\ calls[i - 1].key = "initError"
  /\ (/\ pc \in Terminal \cup {"AwaitInitError", "ResumeInitError"}
      /\ thrown # NoValue
      /\ thrown.marker \notin {"true", "one"}) =>
       /\ ErrorHandlerInvokedWith(thrown) = 1
       /\ CountCalls(LAMBDA c : c.op = "handler" /\ c.key = "initError") = 1

\* C14: the default error handler gives the thrown error to logError and
\* always resolves, so that with it every failure with an error object that
\* is no redirect ends with APP.INIT_ERROR published.
C14_DefaultErrorHandlerResolves ==
  handlers["initError"] = "initError" =>
    /\ HandlerInvoked("initError") =>
         CountCalls(LAMBDA c : c.op = "logError" /\ c.err = thrown) = 1
    /\ ~ HandlerSettled("initError", "rejected")
    /\ (/\ pc \in Terminal
        /\ thrown.kind = "object"
        /\ thrown.marker \notin {"true", "one"}) =>
         "APP.INIT_ERROR" \in TopicSet

WiredPhases == {"logging", "auth", "analytics", "i18n"}

ExpectedWiring(key) ==
  CASE key = "logging" -> "configureLogging"
    [] key = "auth" -> "configureAuth"
    [] key = "analytics" -> "configureAnalytics"
    [] key = "i18n" -> "configureI18n"

IsPhaseInvocation(c) == c.op = "handler" /\ c.key \in PhaseSet

IsCollaboratorCall(c) ==
  c.op \in {"ensureAuthenticatedUser", "fetchAuthenticatedUser",
            "hydrateAuthenticatedUser", "identifyAuthenticatedUser",
            "identifyAnonymousUser"}

IsSequencerStep(c) ==
  \/ IsPhaseInvocation(c)
  \/ c.op = "publish"
  \/ c.op \in {"configureLogging", "configureAuth", "configureAnalytics", "configureI18n"}

\* C15: the first handler is the first thing a run does; every later phase
\* handler is invoked right after its wiring call (when the phase has one),
\* which comes right after the publish of the previous phase's topic, which
\* comes right after the previous handler's resolved settlement; what follows
\* the invocation of a handler is its own collaborator calls and then its
\* settlement, so that the sequencer invokes, wires and publishes nothing
\* while a handler is pending; each wiring call is made at most once, and
\* exactly once when its phase's handler, default or override, is invoked.
C15_PhasesInSequence ==
  /\ \A i \in 1..Len(calls) :
       IsPhaseInvocation(calls[i]) =>
         LET q == PhaseIndex(calls[i].key)
             w == IF calls[i].key \in WiredPhases THEN 1 ELSE 0
         IN  /\ q = 1 => i = 1
             /\ q > 1 =>
                  /\ i > 2 + w
                  /\ w = 1 =>
                       /\ calls[i - 1].op = ExpectedWiring(calls[i].key)
                       /\ calls[i - 1].key = calls[i].key
                  /\ calls[i - 1 - w].op = "publish"
                  /\ calls[i - 1 - w].arg = ExpectedTopics[q - 1]
                  /\ calls[i - 2 - w].op = "settled"
                  /\ calls[i - 2 - w].key = PhaseOrder[q - 1]
                  /\ calls[i - 2 - w].arg = "resolved"
  /\ \A j \in 2..Len(calls) :
       /\ (IsPhaseInvocation(calls[j - 1]) \/ IsCollaboratorCall(calls[j - 1])) =>
            /\ calls[j].key = calls[j - 1].key
            /\ calls[j].op = "settled" \/ IsCollaboratorCall(calls[j])
       /\ IsSequencerStep(calls[j]) =>
            (calls[j - 1].op = "settled" \/ IsSequencerStep(calls[j - 1]))
  /\ \A k \in WiredPhases :
       /\ CountCalls(LAMBDA c : c.op = ExpectedWiring(k)) <= 1
       /\ HandlerInvoked(k) => CountCalls(LAMBDA c : c.op = ExpectedWiring(k)) = 1
       /\ CountCalls(LAMBDA c : c.op = "handler" /\ c.key = k) <= 1

C15_Witness ==
  /\ pc = "Done"
  /\ options.handlers = {"logging"}
  /\ \A k \in WiredPhases : CountCalls(LAMBDA c : c.op = ExpectedWiring(k)) = 1

\* C16: the default analytics handler, once invoked, has made exactly one
\* identify call: identifyAuthenticatedUser with the userId when the
\* authenticated user is there and has a userId, identifyAnonymousUser when
\* the user is null or has no userId; when it is not invoked, the sequencer
\* makes no identify call.
C16_OneIdentifyCall ==
  LET authenticated == CountCalls(LAMBDA c : c.op = "identifyAuthenticatedUser")
      anonymous == CountCalls(LAMBDA c : c.op = "identifyAnonymousUser")
  IN  IF HandlerInvocations("analytics", "analytics") > 0
        THEN /\ HandlerInvocations("analytics", "analytics") = 1
             /\ authenticated + anonymous = 1
             /\ authenticated = 1 <=> user = "userId42"
             /\ anonymous = 1 <=> user \in {"null", "noUserId"}
             /\ \A i \in 1..Len(calls) :
                  calls[i].op = "identifyAuthenticatedUser" => calls[i].arg = user
        ELSE authenticated + anonymous = 0

C16_Witness ==
  /\ user = "noUserId"
  /\ CountCalls(LAMBDA c : c.op = "identifyAnonymousUser") = 1
  /\ "APP.ANALYTICS_INITIALIZED" \in TopicSet

HydrateCalls == CountCalls(LAMBDA c : c.op = "hydrateAuthenticatedUser")

\* C17: hydration is started at most once, and it has been started exactly
\* when the default auth handler ran with hydrateAuthenticatedUser true, its
\* ensure/fetch call has resolved and the authenticated user is not null; the
\* call comes after the ensure/fetch call and right before the handler's
\* resolved settlement.
C17_HydrationStartedIff ==
  /\ HydrateCalls <= 1
  /\ HydrateCalls = 1 <=>
       /\ handlers["auth"] = "auth"
       /\ options.hydrateAuthenticatedUser = "true"
       /\ authOp = "resolved"
       /\ user # "null"
  /\ hydration # "notStarted" <=> HydrateCalls = 1
  /\ \A i \in 1..Len(calls) :
       calls[i].op = "hydrateAuthenticatedUser" =>
         /\ i > 1
         /\ calls[i - 1].op \in {"ensureAuthenticatedUser", "fetchAuthenticatedUser"}
         /\ i < Len(calls)
         /\ calls[i + 1].op = "settled"
         /\ calls[i + 1].key = "auth"
         /\ calls[i + 1].arg = "resolved"

C17_Witness ==
  /\ HydrateCalls = 1
  /\ user = "noUserId"
  /\ options.requireAuthenticatedUser = "true"
  /\ hydration = "fulfilled"
  /\ pc = "Await"

C17_WitnessNoUser ==
  /\ HydrateCalls = 0
  /\ handlers["auth"] = "auth"
  /\ options.hydrateAuthenticatedUser = "true"
  /\ authOp = "resolved"
  /\ user = "null"
  /\ pc = "Done"

\* ------------------------------------------- a specification with fairness
\* The steps of the run itself: the event loop resumes initialize whenever the
\* awaited promise has settled, and every invoked handler settles.  The
\* promise of hydrateAuthenticatedUser() is not among them: it may stay
\* pending for ever.
RunStep ==
  \/ Start
  \/ SettleNoOp
  \/ SettleOverride
  \/ AuthOperationResolves
  \/ AuthOperationRejects
  \/ SettleAnalytics
  \/ ResumeRejected
  \/ ResumeReady
  \/ ResumeNext
  \/ ResumeWiringThrows
  \/ SettleInitError
  \/ ResumeInitErrorResolved
  \/ ResumeInitErrorRejected

SpecFair == Init /\ [][Next]_vars /\ WF_vars(RunStep)

\* C18: when every invoked handler settles, the run eventually is in Done,
\* Errored or Redirecting and stays there; and while a handler is awaited no
\* step publishes anything.
C18_ReachesTerminalState ==
  /\ <>[](pc \in {"Done", "Errored", "Redirecting"})
  /\ [][(pc \in {"Await", "AwaitInitError"}) => (published' = published)]_vars

\* Every run in which every invoked handler settles comes to an end: in
\* Done, Errored, Redirecting, or with the promise of initialize rejected.
RunEnds == <>[](pc \in Terminal)

\* C19: the topics published so far are the first n of PUBSUB, CONFIG,
\* LOGGING, AUTH, ANALYTICS, I18N, READY, in that order, followed or not by
\* one APP.INIT_ERROR.
C19_PublishedIsPrefix ==
  \E n \in 0..7 :
    \/ Topics = SubSeq(ExpectedTopics, 1, n)
    \/ Topics = SubSeq(ExpectedTopics, 1, n) \o <<"APP.INIT_ERROR">>

C19_Witness ==
  /\ pc = "Errored"
  /\ Topics = SubSeq(ExpectedTopics, 1, 5) \o <<"APP.INIT_ERROR">>
  /\ thrown.src = <<"handler", "i18n">>

\* C20: once the auth collaborator is configured, each of its options holds
\* the value of the setting of the same meaning in the config store as it is
\* after the config phase; loginUrl and logoutUrl come from LOGIN_URL and
\* LOGOUT_URL.
C20_AuthOptionsFromConfig ==
  authOptions.configured =>
    /\ authOptions.options.appBaseUrl = config["BASE_URL"]
    /\ authOptions.options.lmsBaseUrl = config["LMS_BASE_URL"]
    /\ authOptions.options.loginUrl = config["LOGIN_URL"]
    /\ authOptions.options.logoutUrl = config["LOGOUT_URL"]
    /\ authOptions.options.refreshAccessTokenEndpoint
         = config["REFRESH_ACCESS_TOKEN_ENDPOINT"]
    /\ authOptions.options.accessTokenCookieName = config["ACCESS_TOKEN_COOKIE_NAME"]
    /\ authOptions.options.csrfTokenApiPath = config["CSRF_TOKEN_API_PATH"]

====
